---- MODULE Spec2Model ----
(***************************************************************************)
(* The write path of a MergeTree data part:                                *)
(*   IMergedBlockOutputStream      (addStream, writeData, ColumnStream)    *)
(*   MergedBlockOutputStream       (the full part writer)                  *)
(*   MergedColumnOnlyOutputStream  (the column-only writer)                *)
(* from dbms/src/Storages/MergeTree/MergedBlockOutputStream.cpp.           *)
(*                                                                         *)
(* One writer object is modelled as a record (variable `writer`); every    *)
(* method is a pure operator from the record before the call to the record *)
(* after it, and every action applies one method to `writer`.  A second    *)
(* record, `twin`, is a reference writer that receives the same calls in   *)
(* another configuration; the equivalence properties compare the two.      *)
(***************************************************************************)
EXTENDS Integers, Sequences, FiniteSets, TLC

\* ------------------------------------------------------------------ bounds
MaxTotalRows == 4       \* rows delivered to one writer object over its life
MaxBlockRows == 3       \* rows of one block
MaxFinalize == 2        \* writeSuffixAndGetChecksums calls on one writer object

Granularities == {2, 3}             \* storage.index_granularity
CompressBlockSizes == {[min |-> 2, max |-> 3]}   \* min/max_compress_block_size

\* ------------------------------------------------------------ small helpers
Range(s) == {s[i] : i \in DOMAIN s}

EmptyMap == [x \in {} |-> x]

Min(a, b) == IF a <= b THEN a ELSE b

RECURSIVE Concat(_)
Concat(ss) == IF ss = <<>> THEN <<>> ELSE Head(ss) \o Concat(Tail(ss))

RECURSIVE Replicate(_, _)
Replicate(n, v) == IF n = 0 THEN <<>> ELSE <<v>> \o Replicate(n - 1, v)

\* the elements of sequence s at positions 1, 1 + step, 1 + 2 step, ...
EveryNth(s, step) ==
    [i \in 1..((Len(s) + step - 1) \div step) |-> s[(i - 1) * step + 1]]

\* ------------------------------------------------ the type system (external)
\* The table of the model: the UInt columns k and j and the nested structure n
\* with the two sibling array columns n.a and n.b.
ColumnNames == {"k", "j", "n.a", "n.b"}

IsArray(name) == name \in {"n.a", "n.b"}

\* IDataType::enumerateStreams: the substream paths of a column, in the order
\* the callback sees them (an array: its sizes, then its elements).
SubstreamPaths(name) ==
    IF IsArray(name) THEN << <<"ArraySizes">>, <<"ArrayElements">> >>
    ELSE << <<>> >>

\* the condition of lines 52, 97, 114 and 126
IsArraySizes(substream_path) ==
    substream_path # <<>> /\ substream_path[Len(substream_path)] = "ArraySizes"

\* IDataType::getFileNameForStream: the sizes of a column of a nested structure
\* are named after the structure, everything else after the escaped column.
getFileNameForStream(name, substream_path) ==
    IF IsArraySizes(substream_path) THEN "n.size0"
    ELSE IF name = "n.a" THEN "n%2Ea"
    ELSE IF name = "n.b" THEN "n%2Eb"
    ELSE name

\* IColumn::permute(perm, 0): row i of the result is row perm[i] of the column
permute(column, perm) == [i \in 1..Len(column) |-> column[perm[i]]]

\* rows [offset, offset + limit) of a column, clipped to its size
RowRange(column, offset, limit) ==
    SubSeq(column, offset + 1, Min(offset + limit, Len(column)))

\* IDataType::serializeBinaryBulkWithMultipleStreams with position independent
\* encoding: what the row range puts into the substream of the given path
\* (a scalar: its values; array sizes: one size per row; array elements: the
\* elements of the rows, concatenated).
SerializedBytes(name, substream_path, column, offset, limit) ==
    LET rows == RowRange(column, offset, limit)
    IN  IF ~IsArray(name) THEN rows
        ELSE IF IsArraySizes(substream_path)
             THEN [i \in 1..Len(rows) |-> Len(rows[i])]
             ELSE Concat(rows)

\* ------------------------------------------------------------ ColumnStream
\* blocks  : the compressed blocks flushed to the data file (their payloads)
\* buffer  : the working buffer of `compressed` (not yet compressed)
\* marks   : the marks file, one record per mark
\* rows    : (history) rows serialized into the stream so far; a mark also
\*           remembers the value `rows` had when it was written
CompressedBlockHeader == 1

CompressedSize(payload) == CompressedBlockHeader + Len(payload)

RECURSIVE SumCompressed(_)
SumCompressed(blocks) ==
    IF blocks = <<>> THEN 0
    ELSE CompressedSize(Head(blocks)) + SumCompressed(Tail(blocks))

NewColumnStream(escaped_column_name, max_compress_block_size) ==
    [escaped_column_name |-> escaped_column_name,
     capacity |-> max_compress_block_size,
     blocks |-> <<>>, buffer |-> <<>>, marks |-> <<>>, rows |-> 0]

CompressedOffset(stream) == Len(stream.buffer)                 \* compressed.offset()
CompressedCount(stream) == Len(Concat(stream.blocks)) + Len(stream.buffer)
PlainCount(stream) == SumCompressed(stream.blocks)             \* plain_hashing.count()
StreamData(stream) == Concat(stream.blocks) \o stream.buffer    \* the uncompressed bytes

\* WriteBuffer::next on `compressed`: compress the working buffer into a block
CompressedNext(stream) ==
    IF stream.buffer = <<>> THEN stream
    ELSE [stream EXCEPT !.blocks = Append(@, stream.buffer), !.buffer = <<>>]

\* WriteBuffer::nextIfAtEnd
CompressedNextIfAtEnd(stream) ==
    IF Len(stream.buffer) >= stream.capacity THEN CompressedNext(stream) ELSE stream

\* WriteBuffer::write, byte by byte
RECURSIVE CompressedWrite(_, _)
CompressedWrite(stream, bytes) ==
    IF bytes = <<>> THEN stream
    ELSE LET s == CompressedNextIfAtEnd(stream)
         IN  CompressedWrite([s EXCEPT !.buffer = Append(@, Head(bytes))], Tail(bytes))

\* --------------------------------------------------------------- file names
DATA_FILE_EXTENSION == ".bin"
MARKS_FILE_EXTENSION == ".mrk"

\* a file of the part directory: <<name, extension>>
PrimaryIdx == <<"primary", ".idx">>
ColumnsTxt == <<"columns", ".txt">>
ChecksumsTxt == <<"checksums", ".txt">>

StreamFiles(stream_name) ==
    {<<stream_name, DATA_FILE_EXTENSION>>, <<stream_name, MARKS_FILE_EXTENSION>>}

\* ------------------------------------------- IMergedBlockOutputStream::addStream
\* faulty variant: skip_offsets is not honoured
OwnPathsWithOffsets(name, skip_offsets) == SubstreamPaths(name)

\* the substreams of a column that get a physical stream
OwnPaths(name, skip_offsets) ==
    SelectSeq(SubstreamPaths(name), LAMBDA p : ~(skip_offsets /\ IsArraySizes(p)))

OwnStreamNames(name, skip_offsets) ==
    {getFileNameForStream(name, p) : p \in Range(OwnPaths(name, skip_offsets))}

RECURSIVE addStreamPaths(_, _, _)
addStreamPaths(w, name, paths) ==
    IF paths = <<>> THEN w
    ELSE LET stream_name == getFileNameForStream(name, Head(paths))
             w1 == IF stream_name \in DOMAIN w.column_streams THEN w
                   ELSE [w EXCEPT
                           !.column_streams = (stream_name :>
                               NewColumnStream(stream_name, w.max_compress_block_size)) @@ @,
                           !.files = @ \cup StreamFiles(stream_name)]
         IN  addStreamPaths(w1, name, Tail(paths))

addStream(w, name, skip_offsets) ==
    addStreamPaths(w, name, OwnPaths(name, skip_offsets))

\* ------------------------------------------- IMergedBlockOutputStream::writeData
\* faulty variant: every mark points at the start of the data file
WriteMarkAtFileStart(stream, min_compress_block_size) ==
    [stream EXCEPT !.marks = Append(@,
        [offset_in_compressed_file |-> 0,
         offset_in_decompressed_block |-> 0,
         rows |-> stream.rows])]

\* lines 95-109: flush a buffer that is full enough, then write the mark
WriteMark(stream, min_compress_block_size) ==
    LET s == IF CompressedOffset(stream) >= min_compress_block_size
             THEN CompressedNext(stream) ELSE stream
    IN  [s EXCEPT !.marks = Append(@,
            [offset_in_compressed_file |-> PlainCount(s),
             offset_in_decompressed_block |-> CompressedOffset(s),
             rows |-> s.rows])]

RECURSIVE WriteMarks(_, _, _, _)
WriteMarks(streams, name, paths, min_compress_block_size) ==
    IF paths = <<>> THEN streams
    ELSE LET stream_name == getFileNameForStream(name, Head(paths))
         IN  WriteMarks(
                [streams EXCEPT ![stream_name] = WriteMark(@, min_compress_block_size)],
                name, Tail(paths), min_compress_block_size)

\* line 121: the row range goes into every substream the getter resolves
RECURSIVE SerializeRange(_, _, _, _, _, _)
SerializeRange(streams, name, paths, column, offset, limit) ==
    IF paths = <<>> THEN streams
    ELSE LET stream_name == getFileNameForStream(name, Head(paths))
             bytes == SerializedBytes(name, Head(paths), column, offset, limit)
             s == CompressedWrite(streams[stream_name], bytes)
         IN  SerializeRange(
                [streams EXCEPT ![stream_name] =
                    [s EXCEPT !.rows = @ + Len(RowRange(column, offset, limit))]],
                name, Tail(paths), column, offset, limit)

\* faulty variant: a full working buffer is left as it is after the granule
NextIfAtEndSkipped(streams, name, paths) == streams

\* lines 124-131
RECURSIVE NextIfAtEndAll(_, _, _)
NextIfAtEndAll(streams, name, paths) ==
    IF paths = <<>> THEN streams
    ELSE LET stream_name == getFileNameForStream(name, Head(paths))
         IN  NextIfAtEndAll(
                [streams EXCEPT ![stream_name] = CompressedNextIfAtEnd(@)],
                name, Tail(paths))

\* faulty variant: every call starts a new granule, the carried offset is ignored
FirstGranuleNeverCarried(prev_mark, index_offset) == FALSE

\* line 88: the first granule of a call closes the granule the previous call
\* left open and gets no mark
FirstGranuleIsCarried(prev_mark, index_offset) == prev_mark = 0 /\ index_offset # 0

\* the loop of lines 83-134, from row prev_mark on
RECURSIVE writeDataFrom(_, _, _, _, _, _)
writeDataFrom(w, streams, name, column, paths, prev_mark) ==
    IF prev_mark >= Len(column) THEN streams
    ELSE LET carried == FirstGranuleIsCarried(prev_mark, w.index_offset)
             limit == IF carried THEN w.index_offset ELSE w.index_granularity
             marked == IF carried THEN streams
                       ELSE WriteMarks(streams, name, paths, w.min_compress_block_size)
             written == SerializeRange(marked, name, paths, column, prev_mark, limit)
             closed == NextIfAtEndAll(written, name, paths)
         IN  writeDataFrom(w, closed, name, column, paths, prev_mark + limit)

\* column_streams[stream_name] of a name that has no stream yields a null
\* pointer, which lines 101/118/130 dereference
writeDataDereferencesNull(w, name, column, skip_offsets) ==
    /\ Len(column) > 0
    /\ ~(OwnStreamNames(name, skip_offsets) \subseteq DOMAIN w.column_streams)

\* the `offset_columns` argument is never read by the function
writeData(w, name, column, offset_columns, skip_offsets) ==
    [w EXCEPT !.column_streams =
        writeDataFrom(w, @, name, column, OwnPaths(name, skip_offsets), 0)]

\* ------------------------------------------------- ColumnStream::addToChecksums
\* a hash is modelled by the content it is the hash of
MarksContent(stream) ==
    [i \in 1..Len(stream.marks) |->
        <<stream.marks[i].offset_in_compressed_file,
          stream.marks[i].offset_in_decompressed_block>>]

\* checksums.files[name]: operator[] makes a default entry when there is none
DefaultChecksum ==
    [is_compressed |-> FALSE, uncompressed_size |-> 0, uncompressed_hash |-> <<>>,
     file_size |-> 0, file_hash |-> <<>>]

ChecksumEntry(checksums, file) ==
    IF file \in DOMAIN checksums THEN checksums[file] ELSE DefaultChecksum

\* lines 176-180
DataFileChecksum(stream, old) ==
    [old EXCEPT !.is_compressed = TRUE,
                !.uncompressed_size = CompressedCount(stream),
                !.uncompressed_hash = StreamData(stream),
                !.file_size = PlainCount(stream),
                !.file_hash = stream.blocks]

\* lines 182-183
MarksFileChecksum(stream, old) ==
    [old EXCEPT !.file_size = 2 * Len(stream.marks),
                !.file_hash = MarksContent(stream)]

\* faulty variant: the marks file gets no entry
addToChecksumsOfDataFile(stream, checksums) ==
    LET data_file == <<stream.escaped_column_name, DATA_FILE_EXTENSION>>
    IN  (data_file :> DataFileChecksum(stream, ChecksumEntry(checksums, data_file)))
        @@ checksums

addToChecksums(stream, checksums) ==
    LET data_file == <<stream.escaped_column_name, DATA_FILE_EXTENSION>>
        marks_file == <<stream.escaped_column_name, MARKS_FILE_EXTENSION>>
    IN  (data_file :> DataFileChecksum(stream, ChecksumEntry(checksums, data_file)))
        @@ (marks_file :> MarksFileChecksum(stream, ChecksumEntry(checksums, marks_file)))
        @@ checksums

\* ColumnStream::finalize
StreamFinalize(stream) == CompressedNext(stream)

\* -------------------------------------------------------------------- Block
\* a block: its column names in position order and the columns by name
BlockRows(block) ==
    IF block.columns = <<>> THEN 0 ELSE Len(block.data[block.columns[1]])

\* Block::checkNumberOfRows throws when two columns differ in size
checkNumberOfRowsThrows(block) ==
    \E c, d \in Range(block.columns) : Len(block.data[c]) # Len(block.data[d])

\* ------------------------------------------------------- the writer object
\* result of the last call: `exception` (the error thrown, or "none"),
\* `returned` (<<>>, or <<checksums>> when the call returned a checksum set),
\* `crashed` (the call dereferenced a null pointer and the process is gone)
NoException == "none"

Returns(w, checksums) == [w EXCEPT !.exception = NoException, !.returned = <<checksums>>]
ReturnsVoid(w) == [w EXCEPT !.exception = NoException, !.returned = <<>>]
Throws(w, code) == [w EXCEPT !.exception = code, !.returned = <<>>]
Crashes(w) == [w EXCEPT !.crashed = TRUE, !.exception = NoException, !.returned = <<>>]

\* IMergedBlockOutputStream::IMergedBlockOutputStream and the members the two
\* derived classes add, before the body of a derived constructor runs
NewWriter(kind, index_granularity, mode, sort_description, sizes) ==
    [kind |-> kind,
     index_granularity |-> index_granularity,
     mode |-> mode,
     sort_description |-> sort_description,
     min_compress_block_size |-> sizes.min,
     max_compress_block_size |-> sizes.max,
     columns_list |-> <<>>,
     skip_offsets |-> FALSE,
     sync |-> FALSE,
     initialized |-> FALSE,
     column_streams |-> EmptyMap,
     index_columns |-> <<>>,
     index_stream |-> <<>>,          \* <<>> is nullptr, <<bytes>> an open primary.idx
     marks_count |-> 0,
     index_offset |-> 0,
     directory |-> FALSE,            \* the part directory exists
     files |-> {},                   \* the files the writer has put into it
     columns_txt |-> <<>>,           \* <<>>, or <<the column list written>>
     checksums_txt |-> <<>>,         \* <<>>, or <<the checksums written>>
     io_log |-> <<>>,                \* stream operations of the last finalize
     exception |-> NoException,
     returned |-> <<>>,
     crashed |-> FALSE]

\* MergedBlockOutputStream::init
init(w) ==
    IF w.mode # "Unsorted"
    THEN [w EXCEPT !.directory = TRUE, !.index_stream = << <<>> >>,
                   !.files = @ \cup {PrimaryIdx}]
    ELSE [w EXCEPT !.directory = TRUE]

RECURSIVE addStreams(_, _, _)
addStreams(w, names, skip_offsets) ==
    IF names = <<>> THEN w
    ELSE addStreams(addStream(w, Head(names), skip_offsets), Tail(names), skip_offsets)

\* MergedBlockOutputStream::MergedBlockOutputStream (both constructors)
MergedBlockOutputStream(index_granularity, mode, sort_description, sizes, columns_list_) ==
    addStreams(
        init([NewWriter("MergedBlockOutputStream", index_granularity, mode,
                        sort_description, sizes)
                EXCEPT !.columns_list = columns_list_]),
        columns_list_, FALSE)

\* MergedColumnOnlyOutputStream::MergedColumnOnlyOutputStream
MergedColumnOnlyOutputStream(index_granularity, mode, sort_description, sizes, sync_, skip_offsets_) ==
    [NewWriter("MergedColumnOnlyOutputStream", index_granularity, mode,
               sort_description, sizes)
        EXCEPT !.sync = sync_, !.skip_offsets = skip_offsets_, !.directory = TRUE]

\* --------------------------------------------- MergedBlockOutputStream::writeImpl
\* faulty variant: a column named twice by the sort description is accepted
HasDuplicatesIgnored(sort_description) == FALSE

\* `permutation` is <<>> for nullptr and <<perm>> for a pointer to perm
HasDuplicates(sort_description) ==
    \E i, j \in DOMAIN sort_description : i # j /\ sort_description[i] = sort_description[j]

\* faulty variant: the key columns are taken in reverse row order
PrimaryColumnsBackwards(w, block, permutation) ==
    [i \in DOMAIN w.sort_description |->
        LET column == block.data[w.sort_description[i]]
        IN  [r \in 1..Len(column) |-> column[Len(column) + 1 - r]]]

\* lines 347-365: the key columns, reordered in advance
PrimaryColumns(w, block, permutation) ==
    [i \in DOMAIN w.sort_description |->
        IF permutation # <<>>
        THEN permute(block.data[w.sort_description[i]], permutation[1])
        ELSE block.data[w.sort_description[i]]]

PositionInKey(w, name) ==
    CHOOSE i \in DOMAIN w.sort_description : w.sort_description[i] = name

\* faulty variant: only the key columns are reordered
ColumnToWriteKeysReordered(w, block, permutation, name) ==
    IF permutation # <<>> /\ name \in Range(w.sort_description)
    THEN permute(block.data[name], permutation[1])
    ELSE block.data[name]

\* lines 377-396: the column handed to writeData for `name`
ColumnToWrite(w, block, permutation, name) ==
    IF permutation # <<>>
    THEN IF name \in Range(w.sort_description)
         THEN PrimaryColumns(w, block, permutation)[PositionInKey(w, name)]
         ELSE permute(block.data[name], permutation[1])
    ELSE block.data[name]

\* lines 375-397
RECURSIVE WriteColumns(_, _, _, _)
WriteColumns(w, block, permutation, names) ==
    IF names = <<>> THEN w
    ELSE WriteColumns(
            writeData(w, Head(names), ColumnToWrite(w, block, permutation, Head(names)),
                      {}, FALSE),
            block, permutation, Tail(names))

\* faulty variant: the sampling restarts at row 0 of every block
SampledRowsFromBlockStart(i, rows, index_granularity) ==
    [s \in 1..((rows + index_granularity - 1) \div index_granularity) |->
        (s - 1) * index_granularity]

\* line 409: the rows i = index_offset, index_offset + granularity, ... < rows
RECURSIVE SampledRows(_, _, _)
SampledRows(i, rows, index_granularity) ==
    IF i >= rows THEN <<>>
    ELSE <<i>> \o SampledRows(i + index_granularity, rows, index_granularity)

\* line 411: only a sorted part has a primary index
WritesIndex(mode) == mode # "Unsorted"

\* faulty variant: primary.idx receives the key columns one after the other
IndexBytesColumnMajor(primary_columns, sampled) ==
    Concat([j \in DOMAIN primary_columns |->
              [s \in DOMAIN sampled |-> primary_columns[j][sampled[s] + 1]]])

\* lines 413-418 for all sampled rows: what goes to primary.idx
IndexBytes(primary_columns, sampled) ==
    Concat([s \in DOMAIN sampled |->
              [j \in DOMAIN primary_columns |-> primary_columns[j][sampled[s] + 1]]])

\* faulty variant: marks are counted only where the index is written
MarksInBlockOfIndex(mode, sampled) == IF mode # "Unsorted" THEN Len(sampled) ELSE 0

\* line 421: one mark per sampled row, whatever the mode
MarksInBlock(mode, sampled) == Len(sampled)

\* faulty variant: the offset carried into the call is forgotten
NextIndexOffsetOfBlockAlone(index_granularity, index_offset, rows) ==
    (index_granularity - (rows % index_granularity)) % index_granularity

\* lines 425-426
NextIndexOffset(index_granularity, index_offset, rows) ==
    LET written_for_last_mark == (index_granularity - index_offset + rows) % index_granularity
    IN  (index_granularity - written_for_last_mark) % index_granularity

writeImplDereferencesNull(w, block, permutation) ==
    \/ \E name \in Range(w.columns_list) :
          writeDataDereferencesNull(w, name, ColumnToWrite(w, block, permutation, name), FALSE)
    \/ /\ WritesIndex(w.mode)
       /\ w.sort_description # <<>>
       /\ w.index_stream = <<>>
       /\ SampledRows(w.index_offset, BlockRows(block), w.index_granularity) # <<>>

writeImpl(w, block, permutation) ==
    IF checkNumberOfRowsThrows(block) THEN Throws(w, "SIZES_OF_COLUMNS_DOESNT_MATCH")
    ELSE IF HasDuplicates(w.sort_description) THEN Throws(w, "BAD_ARGUMENTS")
    ELSE IF writeImplDereferencesNull(w, block, permutation) THEN Crashes(w)
    ELSE
    LET rows == BlockRows(block)
        primary_columns == PrimaryColumns(w, block, permutation)
        w1 == IF w.index_columns = <<>>
              THEN [w EXCEPT !.index_columns = [i \in DOMAIN w.sort_description |-> <<>>]]
              ELSE w
        w2 == WriteColumns(w1, block, permutation, w.columns_list)
        sampled == SampledRows(w.index_offset, rows, w.index_granularity)
        w3 == IF WritesIndex(w.mode)
              THEN [w2 EXCEPT
                      !.index_columns = [j \in DOMAIN @ |->
                          @[j] \o [s \in DOMAIN sampled |-> primary_columns[j][sampled[s] + 1]]],
                      !.index_stream = IF sampled = <<>> \/ primary_columns = <<>> THEN @
                                       ELSE << @[1] \o IndexBytes(primary_columns, sampled) >>]
              ELSE w2
    IN  ReturnsVoid([w3 EXCEPT
            !.marks_count = @ + MarksInBlock(w.mode, sampled),
            !.index_offset = NextIndexOffset(w.index_granularity, w.index_offset, rows)])

\* MergedBlockOutputStream::write
write(w, block) == writeImpl(w, block, <<>>)

\* MergedBlockOutputStream::writeWithPermutation
writeWithPermutation(w, block, permutation) == writeImpl(w, block, <<permutation>>)

\* faulty variant: the call silently does nothing
writeSuffixDoesNothing(w) == ReturnsVoid(w)

\* MergedBlockOutputStream::writeSuffix, MergedColumnOnlyOutputStream::writeSuffix
writeSuffix(w) == Throws(w, "NOT_IMPLEMENTED")

\* ------------------------------------------------ finalizing the stream registry
\* std::map iterates the registry in the order of the stream names
StreamOrder == <<"j", "k", "n%2Ea", "n%2Eb", "n.size0">>

RegistryOrder(column_streams) ==
    SelectSeq(StreamOrder, LAMBDA n : n \in DOMAIN column_streams)

\* ColumnStream::finalize, ColumnStream::sync and addToChecksums as the log sees them
FinalizeEvents(name) ==
    << <<name, "compressed.next">>, <<name, "plain_file.next">>, <<name, "marks.next">> >>
\* faulty variant: the sync of a stream does nothing
NoSyncEvents(name) == <<>>

SyncEvents(name) ==
    << <<name, "plain_file.sync">>, <<name, "marks_file.sync">> >>

\* lines 274-278 (sync_ = FALSE) and lines 477-484
RECURSIVE FinalizeStreams(_, _, _, _)
FinalizeStreams(column_streams, names, sync_, result) ==
    IF names = <<>> THEN result
    ELSE LET name == Head(names)
             events == FinalizeEvents(name)
                       \o (IF sync_ THEN SyncEvents(name) ELSE <<>>)
                       \o << <<name, "addToChecksums">> >>
         IN  FinalizeStreams(column_streams, Tail(names), sync_,
                [checksums |-> addToChecksums(StreamFinalize(column_streams[name]),
                                              result.checksums),
                 io_log |-> result.io_log \o events])

\* ----------------------------- MergedBlockOutputStream::writeSuffixAndGetChecksums
\* `additional_column_checksums` is <<>> for nullptr and <<checksums>> otherwise
IndexChecksum(index_stream, old) ==
    [old EXCEPT !.file_size = Len(index_stream[1]), !.file_hash = index_stream[1]]

\* faulty variant: a part is never taken for empty
PartIsNeverEmpty(w) == FALSE

\* line 282: a part without a mark is empty
PartIsEmpty(w) == w.marks_count = 0

writeSuffixAndGetChecksums(w, total_column_list, additional_column_checksums) ==
    IF WritesIndex(w.mode) /\ w.index_stream = <<>> THEN Crashes(w)
    ELSE
    LET moved == IF additional_column_checksums # <<>>
                 THEN additional_column_checksums[1] ELSE EmptyMap
        with_index == IF WritesIndex(w.mode)
                      THEN (PrimaryIdx :>
                              IndexChecksum(w.index_stream, ChecksumEntry(moved, PrimaryIdx)))
                           @@ moved
                      ELSE moved
        done == FinalizeStreams(w.column_streams, RegistryOrder(w.column_streams), FALSE,
                                [checksums |-> with_index, io_log |-> <<>>])
        w1 == [w EXCEPT !.index_stream = <<>>,
                        !.column_streams = EmptyMap,
                        !.io_log = done.io_log]
    IN  IF PartIsEmpty(w)
        THEN IF ~w.directory THEN Throws(w1, "FILE_NOT_FOUND")
             ELSE Returns([w1 EXCEPT !.directory = FALSE, !.files = {},
                                     !.columns_txt = <<>>, !.checksums_txt = <<>>],
                          EmptyMap)
        ELSE Returns([w1 EXCEPT !.columns_txt = <<total_column_list>>,
                                !.checksums_txt = <<done.checksums>>,
                                !.files = @ \cup {ColumnsTxt, ChecksumsTxt}],
                     done.checksums)

\* faulty variant: the overload passes an empty column list
writeSuffixAndGetChecksumsOfNoColumns(w) ==
    writeSuffixAndGetChecksums(w, <<>>, <<>>)

\* the overload without arguments, lines 305-308
writeSuffixAndGetChecksumsNoArgs(w) ==
    writeSuffixAndGetChecksums(w, w.columns_list, <<>>)

\* ------------------------------------------------- MergedColumnOnlyOutputStream
RECURSIVE ColumnOnly_writeColumns(_, _, _)
ColumnOnly_writeColumns(w, block, names) ==
    IF names = <<>> THEN w
    ELSE ColumnOnly_writeColumns(
            writeData(w, Head(names), block.data[Head(names)], {}, w.skip_offsets),
            block, Tail(names))

\* lines 444-453
ColumnOnly_initialize(w, block) ==
    IF ~w.initialized
    THEN [addStreams([w EXCEPT !.column_streams = EmptyMap], block.columns, w.skip_offsets)
            EXCEPT !.initialized = TRUE]
    ELSE w

\* faulty variant: the column-only writer does not carry the offset on
ColumnOnly_keepIndexOffset(w, rows) == w.index_offset

\* lines 464-465
ColumnOnly_nextIndexOffset(w, rows) ==
    NextIndexOffset(w.index_granularity, w.index_offset, rows)

\* MergedColumnOnlyOutputStream::write
ColumnOnly_write(w, block) ==
    LET w1 == ColumnOnly_initialize(w, block)
    IN  IF \E name \in Range(block.columns) :
              writeDataDereferencesNull(w1, name, block.data[name], w.skip_offsets)
        THEN Crashes(w1)
        ELSE ReturnsVoid([ColumnOnly_writeColumns(w1, block, block.columns)
                EXCEPT !.index_offset = ColumnOnly_nextIndexOffset(w, BlockRows(block))])

\* MergedColumnOnlyOutputStream::writeSuffixAndGetChecksums
ColumnOnly_writeSuffixAndGetChecksums(w) ==
    LET done == FinalizeStreams(w.column_streams, RegistryOrder(w.column_streams), w.sync,
                                [checksums |-> EmptyMap, io_log |-> <<>>])
    IN  Returns([w EXCEPT !.column_streams = EmptyMap,
                          !.initialized = FALSE,
                          !.io_log = done.io_log],
                done.checksums)

\* ==================================================================== inputs
Modes == {"Ordinary", "Unsorted"}        \* storage.merging_params.mode
SortDescription == <<"k">>               \* storage.getSortDescription()
AllColumns == <<"k", "n.a", "n.b">>      \* the columns of the table

\* columns_list of a full writer
FullColumnLists == {<<"k", "n.a", "n.b">>, <<"k", "n.a">>}

\* the columns of the blocks a column-only writer is given
ColumnOnlyBlockColumns == {<<"k", "n.a", "n.b">>, <<"n.a">>}

\* the column-only writers: constructor arguments and the columns of the blocks
\* of the first use
ColumnOnlyWriters ==
    {[sync |-> FALSE, skip_offsets |-> FALSE, columns |-> <<"k", "n.a", "n.b">>],
     [sync |-> TRUE,  skip_offsets |-> FALSE, columns |-> <<"n.a">>],
     [sync |-> FALSE, skip_offsets |-> TRUE,  columns |-> <<"n.a">>],
     [sync |-> TRUE,  skip_offsets |-> TRUE,  columns |-> <<"k", "n.a", "n.b">>]}

\* a row of the table: its key k and the length n of its two nested arrays;
\* column j holds 2 + n
Rows == {[k |-> 0, n |-> 1], [k |-> 1, n |-> 0]}

RowSeqs(max) == UNION {[1..len -> Rows] : len \in 0..max}

ColumnValue(name, row) ==
    IF name = "k" THEN row.k
    ELSE IF name = "j" THEN 2 + row.n
    ELSE IF name = "n.a" THEN Replicate(row.n, 10 + row.k)
    ELSE Replicate(row.n, 20 + row.k)

MakeBlock(columns, rows) ==
    [columns |-> columns,
     data |-> [c \in Range(columns) |-> [i \in 1..Len(rows) |-> ColumnValue(c, rows[i])]]]

RowPermutations(n) ==
    {p \in [1..n -> 1..n] : \A i, j \in 1..n : p[i] = p[j] => i = j}

\* the block with the permutation physically applied to every column
PermutedBlock(block, perm) ==
    [block EXCEPT !.data = [c \in DOMAIN @ |-> permute(@[c], perm)]]

\* checksums of a column written into the part by another writer
GatheredChecksums ==
    (<<"x", DATA_FILE_EXTENSION>> :>
        [DefaultChecksum EXCEPT !.is_compressed = TRUE, !.uncompressed_size = 1,
                                !.uncompressed_hash = <<7>>, !.file_size = 2,
                                !.file_hash = << <<7>> >>])
    @@ (<<"x", MARKS_FILE_EXTENSION>> :>
        [DefaultChecksum EXCEPT !.file_size = 2, !.file_hash = << <<0, 0>> >>])

\* the arguments of writeSuffixAndGetChecksums(total_column_list, checksums)
\* after a merge that gathered column x separately (without such a column the
\* caller uses the overload without arguments)
FinalizeArguments(w) ==
    {[total_column_list |-> w.columns_list \o <<"x">>,
      additional_column_checksums |-> <<GatheredChecksums>>]}

\* ===================================================================== state
VARIABLES
    writer,          \* the writer object under test
    twin,            \* the reference writer, given the same calls
    twin_role,       \* what the reference writer is (see Init)
    block_columns,   \* the columns of the blocks the caller sends
    history,         \* (history) the rows written since construction / last finalize
    delivered,       \* (history) rows delivered to the writer since construction
    finalize_calls,  \* (history) writeSuffixAndGetChecksums calls so far
    last_input       \* (history) what the last call was given: "permutation" (a
                     \* permutation that changes the block), "checksums"
                     \* (pre-supplied checksums), "ragged" (a block whose
                     \* columns differ in size), else "plain"

vars == <<writer, twin, twin_role, block_columns, history, delivered, finalize_calls,
          last_input>>

Succeeded(w) == ~w.crashed /\ w.exception = NoException

InitHistory ==
    /\ history = <<>>
    /\ delivered = 0
    /\ finalize_calls = 0
    /\ last_input = "plain"

\* A full part writer.  Its twin is the same writer, which is given every
\* block physically sorted instead of a permutation ("presorted"); for an
\* unsorted table it is the writer of a sorted table, given the same calls
\* ("sorted_mode").
Init ==
    /\ \E g \in Granularities, sizes \in CompressBlockSizes, mode \in Modes,
          columns_list_ \in FullColumnLists :
          /\ writer = MergedBlockOutputStream(g, mode, SortDescription, sizes, columns_list_)
          /\ twin = MergedBlockOutputStream(g, "Ordinary", SortDescription, sizes,
                                            columns_list_)
          /\ twin_role = IF mode = "Unsorted" THEN "sorted_mode" ELSE "presorted"
          /\ block_columns = AllColumns
    /\ InitHistory

\* A column-only writer.  With skip_offsets off its twin is a full part writer
\* of the same columns and, after the first finalize, a fresh column-only
\* writer for every further use ("full_writer"); with skip_offsets on it is the
\* same column-only writer with skip_offsets off ("skip_offsets_off").
InitColumnOnly ==
    /\ \E g \in Granularities, sizes \in CompressBlockSizes, c \in ColumnOnlyWriters :
          /\ writer = MergedColumnOnlyOutputStream(g, "Ordinary", SortDescription,
                                                   sizes, c.sync, c.skip_offsets)
          /\ twin = IF c.skip_offsets
                    THEN MergedColumnOnlyOutputStream(g, "Ordinary", SortDescription,
                                                      sizes, c.sync, FALSE)
                    ELSE MergedBlockOutputStream(
                            g, "Ordinary",
                            SelectSeq(SortDescription, LAMBDA n : n \in Range(c.columns)),
                            sizes, c.columns)
          /\ twin_role = IF c.skip_offsets THEN "skip_offsets_off" ELSE "full_writer"
          /\ block_columns = c.columns
    /\ InitHistory

IsFull == writer.kind = "MergedBlockOutputStream"
IsColumnOnly == writer.kind = "MergedColumnOnlyOutputStream"

\* bookkeeping of the history variables after a write call that delivered `rows`
Delivered(rows) ==
    /\ history' = IF Succeeded(writer') THEN history \o rows ELSE history
    /\ delivered' = IF Succeeded(writer') THEN delivered + Len(rows) ELSE delivered

\* ------------------------------------------------------------------- actions
Write ==
    /\ IsFull /\ ~writer.crashed
    /\ \E rows \in RowSeqs(Min(MaxBlockRows, MaxTotalRows - delivered)) :
          LET block == MakeBlock(block_columns, rows)
          IN  /\ writer' = write(writer, block)
              /\ twin' = write(twin, block)
              /\ Delivered(rows)
              /\ last_input' = "plain"
    /\ UNCHANGED <<twin_role, block_columns, finalize_calls>>

WriteWithPermutation ==
    /\ IsFull /\ ~writer.crashed
    /\ \E rows \in RowSeqs(Min(MaxBlockRows, MaxTotalRows - delivered)) :
       \E perm \in RowPermutations(Len(rows)) :
          LET block == MakeBlock(block_columns, rows)
          IN  /\ writer' = writeWithPermutation(writer, block, perm)
              /\ twin' = IF twin_role = "presorted"
                         THEN write(twin, PermutedBlock(block, perm))
                         ELSE writeWithPermutation(twin, block, perm)
              /\ Delivered(permute(rows, perm))
              /\ last_input' = IF permute(rows, perm) # rows THEN "permutation"
                                ELSE "plain"
    /\ UNCHANGED <<twin_role, block_columns, finalize_calls>>

WriteSuffix ==
    /\ IsFull /\ ~writer.crashed
    /\ writer' = writeSuffix(writer)
    /\ twin' = writeSuffix(twin)
    /\ last_input' = "plain"
    /\ UNCHANGED <<twin_role, block_columns, history, delivered, finalize_calls>>

WriteSuffixAndGetChecksums ==
    /\ IsFull /\ ~writer.crashed
    /\ finalize_calls < MaxFinalize
    /\ \E args \in FinalizeArguments(writer) :
          /\ writer' = writeSuffixAndGetChecksums(writer, args.total_column_list,
                                                  args.additional_column_checksums)
          /\ twin' = writeSuffixAndGetChecksums(twin, args.total_column_list,
                                                args.additional_column_checksums)
          /\ last_input' = IF args.additional_column_checksums # <<>> THEN "checksums"
                            ELSE "plain"
    /\ finalize_calls' = finalize_calls + 1
    /\ UNCHANGED <<twin_role, block_columns, history, delivered>>

WriteSuffixAndGetChecksumsNoArgs ==
    /\ IsFull /\ ~writer.crashed
    /\ finalize_calls < MaxFinalize
    /\ writer' = writeSuffixAndGetChecksumsNoArgs(writer)
    /\ twin' = writeSuffixAndGetChecksumsNoArgs(twin)
    /\ finalize_calls' = finalize_calls + 1
    /\ last_input' = "plain"
    /\ UNCHANGED <<twin_role, block_columns, history, delivered>>

\* a freshly constructed column-only writer with the constructor arguments of w
FreshColumnOnly(w) ==
    MergedColumnOnlyOutputStream(
        w.index_granularity, w.mode, w.sort_description,
        [min |-> w.min_compress_block_size, max |-> w.max_compress_block_size],
        w.sync, w.skip_offsets)

\* The reference writer the next call goes to.  The full-writer twin of a
\* column-only writer is single-use: once it is finalized, the reference for
\* the next use of the column-only writer is a freshly constructed column-only
\* writer, and again so after every finalize.
TwinBase ==
    IF twin_role = "full_writer" /\ twin.returned # <<>> THEN FreshColumnOnly(writer)
    ELSE twin

TwinIsFull == TwinBase.kind = "MergedBlockOutputStream"

\* a run of the column-only writer ends with its last finalize
ColumnOnlyWrite ==
    /\ IsColumnOnly /\ ~writer.crashed
    /\ finalize_calls < MaxFinalize
    /\ \E rows \in RowSeqs(Min(MaxBlockRows, MaxTotalRows - delivered)) :
          LET block == MakeBlock(block_columns, rows)
          IN  /\ writer' = ColumnOnly_write(writer, block)
              /\ twin' = IF TwinIsFull THEN write(TwinBase, block)
                         ELSE ColumnOnly_write(TwinBase, block)
              /\ Delivered(rows)
              /\ last_input' = "plain"
    /\ UNCHANGED <<twin_role, block_columns, finalize_calls>>

ColumnOnlyWriteSuffix ==
    /\ IsColumnOnly /\ ~writer.crashed
    /\ writer' = writeSuffix(writer)
    /\ twin' = writeSuffix(TwinBase)
    /\ last_input' = "plain"
    /\ UNCHANGED <<twin_role, block_columns, history, delivered, finalize_calls>>

ColumnOnlyWriteSuffixAndGetChecksums ==
    /\ IsColumnOnly /\ ~writer.crashed
    /\ finalize_calls < MaxFinalize
    /\ writer' = ColumnOnly_writeSuffixAndGetChecksums(writer)
    /\ twin' = IF TwinIsFull THEN writeSuffixAndGetChecksumsNoArgs(TwinBase)
               ELSE ColumnOnly_writeSuffixAndGetChecksums(TwinBase)
    \* the writer may now be given blocks of other columns
    /\ block_columns' \in ColumnOnlyBlockColumns
    /\ history' = <<>>
    /\ finalize_calls' = finalize_calls + 1
    /\ last_input' = "plain"
    /\ UNCHANGED <<twin_role, delivered>>

Next ==
    \/ Write
    \/ WriteWithPermutation
    \/ WriteSuffix
    \/ WriteSuffixAndGetChecksums
    \/ WriteSuffixAndGetChecksumsNoArgs

NextColumnOnly ==
    \/ ColumnOnlyWrite
    \/ ColumnOnlyWriteSuffix
    \/ ColumnOnlyWriteSuffixAndGetChecksums

\* the full part writer
Spec == Init /\ [][Next]_vars

\* the column-only writer
SpecColumnOnly == InitColumnOnly /\ [][NextColumnOnly]_vars

\* ------------------------------------- writers of a table with the key (k, j)
\* the sort descriptions of the table: one column, two columns, and one that
\* names a column twice
KeySortDescriptions == {<<"k">>, <<"k", "j">>, <<"k", "k">>}

KeyColumns == <<"k", "j">>

\* a block whose column j is one row shorter than its column k
RaggedBlock(columns, rows) ==
    [MakeBlock(columns, rows) EXCEPT !.data["j"] = SubSeq(@, 1, Len(@) - 1)]

\* A full part writer of the columns k and j under each sort description, or a
\* column-only writer; the twin is a second writer given the same calls
\* ("same").
InitKeys ==
    /\ \E g \in Granularities, sizes \in CompressBlockSizes :
          \/ \E mode \in Modes, sort_description \in KeySortDescriptions :
                writer = MergedBlockOutputStream(g, mode, sort_description, sizes,
                                                 KeyColumns)
          \/ writer = MergedColumnOnlyOutputStream(g, "Ordinary", <<"k", "j">>, sizes,
                                                   FALSE, FALSE)
    /\ twin = writer
    /\ twin_role = "same"
    /\ block_columns = KeyColumns
    /\ InitHistory

\* write of a block whose columns disagree on the number of rows
WriteRagged ==
    /\ IsFull /\ ~writer.crashed
    /\ \E rows \in RowSeqs(Min(MaxBlockRows, MaxTotalRows - delivered)) :
          /\ Len(rows) > 0
          /\ LET block == RaggedBlock(block_columns, rows)
             IN  /\ writer' = write(writer, block)
                 /\ twin' = write(twin, block)
    /\ last_input' = "ragged"
    /\ UNCHANGED <<twin_role, block_columns, history, delivered, finalize_calls>>

NextKeys ==
    \/ Write
    \/ WriteRagged
    \/ WriteSuffix
    \/ WriteSuffixAndGetChecksumsNoArgs
    \/ ColumnOnlyWrite
    \/ ColumnOnlyWriteSuffix
    \/ ColumnOnlyWriteSuffixAndGetChecksums

SpecKeys == InitKeys /\ [][NextKeys]_vars

\* =============================================================== properties
g == writer.index_granularity
N == Len(history)

CeilDiv(a, b) == (a + b - 1) \div b

HistoryColumn(name) == [i \in 1..Len(history) |-> ColumnValue(name, history[i])]

\* the streams of the writer's column `name` are those of no other column it writes
Unshared(name) ==
    \A other \in Range(writer.columns_list) \ {name} :
        OwnStreamNames(name, FALSE) \cap OwnStreamNames(other, FALSE) = {}

\* the marks of a stream stand at the rows 0, g, 2g, ... below `rows`
MarksAligned(stream, rows) ==
    /\ Len(stream.marks) = CeilDiv(rows, g)
    /\ \A i \in 1..Len(stream.marks) : stream.marks[i].rows = (i - 1) * g

\* C1: in a full part writer, every stream of a column that shares no stream
\* with another column has, after any sequence of write calls, exactly one mark
\* for every row index 0, g, 2g, ... below the number of rows written; the
\* k-th mark was written when exactly k*g rows were in the stream; and the
\* stream has marks_count marks.
C1_MarksAtAbsoluteGranules ==
    (IsFull /\ ~writer.crashed) =>
        \A name \in Range(writer.columns_list) :
            Unshared(name) =>
                \A stream_name \in OwnStreamNames(name, FALSE) \cap DOMAIN writer.column_streams :
                    LET stream == writer.column_streams[stream_name]
                    IN  /\ stream.rows = N
                        /\ MarksAligned(stream, N)
                        /\ Len(stream.marks) = writer.marks_count

\* two marks, the second one written in a call that began inside a granule
C1_Witness ==
    /\ IsFull /\ ~writer.crashed /\ g = 3 /\ N = 4
    /\ writer.index_offset = 2
    /\ writer.columns_list = <<"k", "n.a">>
    /\ \A stream_name \in {"k", "n.size0", "n%2Ea"} :
          /\ stream_name \in DOMAIN writer.column_streams
          /\ Len(writer.column_streams[stream_name].marks) = 2
          /\ writer.column_streams[stream_name].marks[2].rows = 3

\* C2: after any sequence of successful write calls that delivered N rows to
\* a full part writer, marks_count = ceil(N / g) and
\* index_offset = (g - N mod g) mod g, so 0 <= index_offset < g; both depend
\* on N alone.
C2_MarksCountAndIndexOffset ==
    IsFull =>
        /\ writer.marks_count = CeilDiv(N, g)
        /\ writer.index_offset = (g - (N % g)) % g
        /\ writer.index_offset \in 0..(g - 1)

C2_Witness ==
    /\ IsFull /\ g = 3 /\ N = 4 /\ finalize_calls = 0
    /\ writer.marks_count = 2 /\ writer.index_offset = 2

\* C3: in a mode other than unsorted, the index accumulator of every sort-key
\* column holds the key values of the rows 0, g, 2g, ... of all rows written
\* (after permutation), so it has marks_count values, however the rows were
\* split into blocks.
C3_IndexHoldsEveryGthKey ==
    (IsFull /\ writer.mode # "Unsorted") =>
        IF writer.index_columns = <<>> THEN N = 0
        ELSE /\ DOMAIN writer.index_columns = DOMAIN writer.sort_description
             /\ \A j \in DOMAIN writer.index_columns :
                   /\ writer.index_columns[j] =
                         EveryNth(HistoryColumn(writer.sort_description[j]), g)
                   /\ Len(writer.index_columns[j]) = writer.marks_count

C3_Witness ==
    /\ IsFull /\ writer.mode # "Unsorted" /\ g = 2 /\ N = 4
    /\ writer.index_columns = << <<1, 0>> >>
    /\ HistoryColumn("k") = <<1, 0, 0, 1>>

\* the array sizes of the rows written
HistorySizes == [i \in 1..Len(history) |-> history[i].n]

\* C4: when two sibling array columns of one nested structure are written in
\* the same write call, their shared size substream receives exactly one mark
\* and exactly one copy of the sizes per granule.
C4_SharedSizesWrittenOncePerGranule ==
    (/\ IsFull /\ ~writer.crashed
     /\ {"n.a", "n.b"} \subseteq Range(writer.columns_list)
     /\ "n.size0" \in DOMAIN writer.column_streams) =>
        LET stream == writer.column_streams["n.size0"]
        IN  /\ MarksAligned(stream, N)
            /\ StreamData(stream) = HistorySizes

\* one row, granularity 2: the shared stream holds two marks and the size twice
C4_Witness ==
    /\ IsFull /\ ~writer.crashed /\ g = 2 /\ history = <<[k |-> 0, n |-> 1]>>
    /\ writer.columns_list = <<"k", "n.a", "n.b">>
    /\ Len(writer.column_streams["n.size0"].marks) = 2
    /\ StreamData(writer.column_streams["n.size0"]) = <<1, 1>>
    /\ Len(writer.column_streams["n%2Ea"].marks) = 1

\* the checksum set the last call returned
ReturnedChecksums == writer.returned[1]

\* C5: a full part writer finalized after zero rows has marks_count 0, removes
\* the part directory, writes neither columns.txt nor checksums.txt and returns
\* an empty checksum map, also when pre-supplied checksums were passed in; a
\* writer finalized after at least one row keeps the directory and writes
\* columns.txt and checksums.txt.
C5_EmptyPartIsRemoved ==
    (IsFull /\ writer.returned # <<>>) =>
        IF N = 0
        THEN /\ writer.marks_count = 0
             /\ ~writer.directory
             /\ writer.files = {}
             /\ writer.columns_txt = <<>> /\ writer.checksums_txt = <<>>
             /\ ReturnedChecksums = EmptyMap
        ELSE /\ writer.marks_count > 0
             /\ writer.directory
             /\ writer.columns_txt # <<>> /\ writer.checksums_txt # <<>>
             /\ {ColumnsTxt, ChecksumsTxt} \subseteq writer.files

\* an empty part finalized with pre-supplied checksums
C5_Witness ==
    /\ IsFull /\ writer.returned # <<>> /\ N = 0 /\ last_input = "checksums"
    /\ ~writer.directory /\ ReturnedChecksums = EmptyMap

\* the files other writers put into the part, whose checksums the caller supplied
SuppliedFiles == IF last_input = "checksums" THEN DOMAIN GatheredChecksums ELSE {}

\* the first finalize of a full part writer has returned
Finalized == IsFull /\ finalize_calls = 1 /\ writer.returned # <<>>

CompressedFlags(checksums, files) ==
    \A file \in files :
        /\ file[2] = DATA_FILE_EXTENSION => checksums[file].is_compressed
        /\ file[2] = MARKS_FILE_EXTENSION => ~checksums[file].is_compressed

\* C6 as stated: after the full writer finalizes a part, the returned checksum
\* map has an entry for every file written into the part directory and for no
\* other file; data-file entries are flagged compressed, marks-file entries not.
C6_EveryFileHasAnEntry ==
    Finalized =>
        /\ DOMAIN ReturnedChecksums = writer.files \cup (IF N = 0 THEN {} ELSE SuppliedFiles)
        /\ CompressedFlags(ReturnedChecksums, writer.files \cap DOMAIN ReturnedChecksums)

\* C6: after the full writer finalizes a part, the returned checksum map has
\* an entry for every data file, marks file and primary.idx the writer wrote,
\* and beyond these only the pre-supplied entries; columns.txt and
\* checksums.txt are written without an entry; data-file entries are flagged
\* compressed, marks-file entries not; an empty part has no file and no entry.
C6_EveryStreamFileHasAnEntry ==
    Finalized =>
        IF N = 0 THEN writer.files = {} /\ ReturnedChecksums = EmptyMap
        ELSE /\ {ColumnsTxt, ChecksumsTxt} \subseteq writer.files
             /\ DOMAIN ReturnedChecksums =
                   (writer.files \ {ColumnsTxt, ChecksumsTxt}) \cup SuppliedFiles
             /\ CompressedFlags(ReturnedChecksums, writer.files \ {ColumnsTxt, ChecksumsTxt})
             /\ \A name \in UNION {OwnStreamNames(c, FALSE) : c \in Range(writer.columns_list)} :
                   StreamFiles(name) \subseteq DOMAIN ReturnedChecksums

C6_Witness ==
    /\ Finalized /\ N = 3 /\ writer.mode = "Ordinary"
    /\ writer.columns_list = <<"k", "n.a">>
    /\ DOMAIN ReturnedChecksums =
          {PrimaryIdx} \cup StreamFiles("k") \cup StreamFiles("n.size0")
          \cup StreamFiles("n%2Ea")
    /\ ChecksumsTxt \in writer.files

\* C7: in unsorted mode the full writer never opens or writes primary.idx,
\* never appends a value to the index accumulator and returns checksums
\* without a primary.idx entry, while marks_count and index_offset are those
\* of a writer in a sorted mode that is given the same calls.
C7_UnsortedWritesNoIndex ==
    (IsFull /\ writer.mode = "Unsorted") =>
        /\ PrimaryIdx \notin writer.files
        /\ writer.index_stream = <<>>
        /\ \A j \in DOMAIN writer.index_columns : writer.index_columns[j] = <<>>
        /\ writer.returned # <<>> => PrimaryIdx \notin DOMAIN ReturnedChecksums
        /\ writer.checksums_txt # <<>> => PrimaryIdx \notin DOMAIN writer.checksums_txt[1]
        /\ twin_role = "sorted_mode" /\ twin.mode # "Unsorted"
        /\ writer.marks_count = twin.marks_count
        /\ writer.index_offset = twin.index_offset

\* an unsorted part of two granules, finalized; the sorted writer has an index
C7_Witness ==
    /\ IsFull /\ writer.mode = "Unsorted" /\ g = 3 /\ N = 4
    /\ writer.marks_count = 2 /\ writer.index_offset = 2
    /\ finalize_calls = 1 /\ writer.returned # <<>>
    /\ PrimaryIdx \in DOMAIN twin.returned[1]
    /\ Len(twin.index_columns[1]) = 2

\* the rows the step has delivered
DeliveredRows == SubSeq(history', Len(history) + 1, Len(history'))

\* C8: writeWithPermutation(block, permutation) leaves the writer in the state
\* write(block') leaves it in, where block' is the block with the permutation
\* applied to every column: a writer that is given every block presorted is
\* always in the same state, and every step that delivers rows is the step
\* write makes with these rows in the order delivered.
C8_PermutationIsPresorting ==
    /\ [](twin_role = "presorted" => writer = twin)
    /\ [][(IsFull /\ history' # history) =>
             writer' = write(writer, MakeBlock(block_columns, DeliveredRows))]_vars

\* a permutation that changed the block was applied to key and array columns
C8_Witness ==
    /\ IsFull /\ twin_role = "presorted" /\ last_input = "permutation"
    /\ Succeeded(writer) /\ finalize_calls = 0
    /\ writer.columns_list = <<"k", "n.a", "n.b">>
    /\ StreamData(writer.column_streams["k"]) = <<0, 1>>
    /\ StreamData(writer.column_streams["n%2Ea"]) = <<10>>

\* a checksum set without the entries of the given files
Without(checksums, files) == [file \in DOMAIN checksums \ files |-> checksums[file]]

\* the column-only writer and a full part writer of the same columns have been
\* given the same blocks, and no finalize yet
ComparedWithFullWriter ==
    IsColumnOnly /\ twin_role = "full_writer" /\ finalize_calls = 0 /\ writer.initialized

\* both have then been finalized, and nothing was called since
BothFinalized ==
    /\ IsColumnOnly /\ twin_role = "full_writer" /\ finalize_calls = 1
    /\ writer.returned # <<>> /\ twin.returned # <<>>

SameStreams ==
    /\ writer.column_streams = twin.column_streams
    /\ writer.index_offset = twin.index_offset

\* C9 as stated: given the same blocks, a fresh column-only writer
\* (skip_offsets off) has the stream names, marks and data bytes of a fresh full
\* part writer of the same columns, and returns the same checksum entries for
\* them.
C9_ColumnOnlyEqualsFullWriter ==
    /\ ComparedWithFullWriter => SameStreams
    /\ BothFinalized => ReturnedChecksums = Without(twin.returned[1], {PrimaryIdx})

\* C9: given the same blocks, a fresh column-only writer (skip_offsets off) has
\* the stream names, marks, data bytes and index_offset of a fresh full part
\* writer of the same columns; it returns an entry for every file it created,
\* and these are the entries the full writer returns for the columns if at
\* least one row was written (for a part without rows the full writer returns
\* no entry at all).
C9_ColumnOnlyEqualsFullWriterOfRows ==
    /\ ComparedWithFullWriter => SameStreams
    /\ BothFinalized =>
          /\ DOMAIN ReturnedChecksums = writer.files
          /\ IF delivered > 0
             THEN ReturnedChecksums = Without(twin.returned[1], {PrimaryIdx})
             ELSE twin.returned[1] = EmptyMap

\* four rows in two granules, finalized by both writers
C9_Witness ==
    /\ BothFinalized /\ delivered = 4 /\ g = 3
    /\ DOMAIN ReturnedChecksums = StreamFiles("n.size0") \cup StreamFiles("n%2Ea")
    /\ ReturnedChecksums[<<"n%2Ea", MARKS_FILE_EXTENSION>>].file_size = 4
    /\ twin.returned[1][<<"n%2Ea", MARKS_FILE_EXTENSION>>].file_size = 4

SizesFiles == StreamFiles("n.size0")

\* C10: with skip_offsets set the column-only writer has no stream for an
\* array-size substream, creates neither of its files and returns no checksum
\* entry for them; its other streams (marks and data bytes) and checksum
\* entries are those of the same writer with skip_offsets off that is given the
\* same calls.
C10_SkipOffsetsOmitsSizes ==
    (IsColumnOnly /\ writer.skip_offsets) =>
        /\ twin_role = "skip_offsets_off" /\ ~twin.skip_offsets
        /\ "n.size0" \notin DOMAIN writer.column_streams
        /\ writer.files \cap SizesFiles = {}
        /\ DOMAIN writer.column_streams = DOMAIN twin.column_streams \ {"n.size0"}
        /\ \A name \in DOMAIN writer.column_streams :
              writer.column_streams[name] = twin.column_streams[name]
        /\ writer.index_offset = twin.index_offset
        /\ (writer.returned = <<>>) = (twin.returned = <<>>)
        /\ writer.returned # <<>> =>
              ReturnedChecksums = Without(twin.returned[1], SizesFiles)

\* an array column of two granules, finalized: the writer without skip_offsets
\* has the sizes, this one has not
C10_Witness ==
    /\ IsColumnOnly /\ writer.skip_offsets /\ writer.returned # <<>>
    /\ finalize_calls = 1 /\ delivered = 4 /\ g = 3
    /\ SizesFiles \subseteq DOMAIN twin.returned[1]
    /\ twin.returned[1][<<"n.size0", DATA_FILE_EXTENSION>>].uncompressed_size = 4
    /\ DOMAIN ReturnedChecksums = StreamFiles("n%2Ea")
    /\ ReturnedChecksums[<<"n%2Ea", MARKS_FILE_EXTENSION>>].file_size = 4

\* C11: the full part writer is single-use: a write call or a second
\* writeSuffixAndGetChecksums call after the first writeSuffixAndGetChecksums
\* is rejected with an error, writes no file and returns no checksum set.
C11_SecondFinalizeIsRejected ==
    (IsFull /\ finalize_calls = 2) =>
        /\ ~writer.crashed
        /\ writer.exception # NoException
        /\ writer.returned = <<>>

\* an unsorted part, finalized twice: the second call has returned a checksum
\* set without the entries of the streams and has written it to checksums.txt
C11_Witness ==
    /\ IsFull /\ finalize_calls = 2 /\ writer.mode = "Unsorted" /\ N = 1
    /\ Succeeded(writer) /\ writer.returned # <<>>
    /\ ReturnedChecksums = EmptyMap
    /\ writer.checksums_txt = <<EmptyMap>>
    /\ StreamFiles("k") \subseteq writer.files

\* the column-only writer is in a later use, next to a fresh column-only writer
\* that was given the blocks of this use
ReusedNextToFresh ==
    /\ IsColumnOnly /\ twin_role = "full_writer" /\ finalize_calls >= 1
    /\ twin.kind = "MergedColumnOnlyOutputStream"

\* the streams of the columns of the blocks the writer is being given
StreamsOfBlockColumns ==
    UNION {OwnStreamNames(c, writer.skip_offsets) : c \in Range(block_columns)}

\* C12: after writeSuffixAndGetChecksums the column-only writer has an empty
\* stream registry, the next write creates the streams of exactly the columns
\* of its block, and the marks, data and checksums of the reused writer are
\* those of a freshly constructed column-only writer given the same blocks,
\* whatever number of rows was written before the finalize.
C12_ReusedEqualsFresh ==
    /\ (IsColumnOnly /\ writer.returned # <<>>) =>
          writer.column_streams = EmptyMap /\ ~writer.initialized
    /\ (IsColumnOnly /\ writer.initialized) =>
          DOMAIN writer.column_streams = StreamsOfBlockColumns
    /\ ReusedNextToFresh =>
          /\ writer.column_streams = twin.column_streams
          /\ (writer.returned # <<>> /\ twin.returned # <<>>) =>
                ReturnedChecksums = twin.returned[1]

\* one row before the finalize and one row after it, granularity 2: the
\* reused writer has written the row without a mark, the fresh writer with one
C12_Witness ==
    /\ ReusedNextToFresh /\ finalize_calls = 1 /\ g = 2 /\ delivered = 2 /\ N = 1
    /\ block_columns = <<"n.a">>
    /\ writer.index_offset = 0
    /\ writer.column_streams["n.size0"].rows = 1
    /\ writer.column_streams["n.size0"].marks = <<>>
    /\ Len(twin.column_streams["n.size0"].marks) = 1

\* the call that took writer `before` to `after` changed nothing but the
\* result of the last call
NothingChanged(before, after) ==
    after = [before EXCEPT !.exception = after.exception, !.returned = after.returned]

Rejected(before, after, code) ==
    /\ after.exception = code
    /\ ~after.crashed
    /\ after.returned = <<>>
    /\ NothingChanged(before, after)

\* the blocks of one write call
BlockRowSeqs == RowSeqs(MaxBlockRows)

\* C13: in every state of the full writer, a write of a block whose columns
\* disagree on the number of rows, and any write when the sort description
\* names a column twice, fails and leaves marks_count, index_offset, the index
\* accumulator, every column stream and every file as they were.
C13_RejectedWriteChangesNothing ==
    (IsFull /\ ~writer.crashed /\ block_columns = KeyColumns) =>
        \A rows \in BlockRowSeqs :
            /\ Len(rows) > 0 =>
                  Rejected(writer, write(writer, RaggedBlock(block_columns, rows)),
                           "SIZES_OF_COLUMNS_DOESNT_MATCH")
            /\ writer.sort_description = <<"k", "k">> =>
                  Rejected(writer, write(writer, MakeBlock(block_columns, rows)),
                           "BAD_ARGUMENTS")

\* three rows are written and a block with columns of different sizes was
\* rejected
C13_Witness ==
    /\ IsFull /\ last_input = "ragged" /\ N = 3 /\ g = 2
    /\ writer.exception = "SIZES_OF_COLUMNS_DOESNT_MATCH"
    /\ writer.marks_count = 2 /\ writer.index_offset = 1
    /\ Len(writer.column_streams["j"].marks) = 2
    /\ writer.column_streams["j"].rows = 3

\* C14: in every state of a full part writer and of a column-only writer,
\* writeSuffix fails with NOT_IMPLEMENTED and changes nothing: no stream is
\* finalized, no file is written, and the registry, marks_count and
\* index_offset are as before.
C14_WriteSuffixIsNotImplemented ==
    ~writer.crashed =>
        Rejected(writer, writeSuffix(writer), "NOT_IMPLEMENTED")

\* writeSuffix was called on a column-only writer with open streams
C14_Witness ==
    /\ IsColumnOnly /\ writer.exception = "NOT_IMPLEMENTED"
    /\ writer.initialized /\ N = 3 /\ finalize_calls = 0
    /\ DOMAIN writer.column_streams = {"j", "k"}
    /\ writer.column_streams["k"].rows = 3
    /\ writer.io_log = <<>>

\* the physical position a mark records: the offset of a compressed block in
\* the data file and the offset in the decompressed block
PositionBefore(m1, m2) ==
    \/ m1.offset_in_compressed_file < m2.offset_in_compressed_file
    \/ /\ m1.offset_in_compressed_file = m2.offset_in_compressed_file
       /\ m1.offset_in_decompressed_block < m2.offset_in_decompressed_block

SamePosition(m1, m2) ==
    /\ m1.offset_in_compressed_file = m2.offset_in_compressed_file
    /\ m1.offset_in_decompressed_block = m2.offset_in_decompressed_block

\* the streams that receive at least one byte for every row
StreamsOfEveryRow == {"k", "j", "n.size0"}

\* the streams of the columns that share no stream
UnsharedStreams ==
    UNION {OwnStreamNames(c, FALSE) : c \in {c \in Range(writer.columns_list) : Unshared(c)}}

\* C15 as stated: the marks of every stream are strictly increasing in
\* physical position and in row index.
C15_MarksStrictlyIncrease ==
    IsFull =>
        \A name \in DOMAIN writer.column_streams :
            LET marks == writer.column_streams[name].marks
            IN  \A i, j \in DOMAIN marks :
                    i < j => /\ PositionBefore(marks[i], marks[j])
                             /\ marks[i].rows < marks[j].rows

\* C15: the marks of every stream never go back in physical position
\* (compressed-block offset, then offset in the block); they are strictly
\* increasing in position for a stream that receives a byte for every row, and
\* strictly increasing in row index for the streams of a column that shares no
\* stream; two marks of a stream that received no byte between them (a
\* granule of empty arrays) record the same position.
C15_MarksNeverGoBack ==
    IsFull =>
        \A name \in DOMAIN writer.column_streams :
            LET marks == writer.column_streams[name].marks
            IN  \A i, j \in DOMAIN marks :
                    i < j =>
                        /\ PositionBefore(marks[i], marks[j]) \/ SamePosition(marks[i], marks[j])
                        /\ name \in StreamsOfEveryRow => PositionBefore(marks[i], marks[j])
                        /\ name \in UnsharedStreams => marks[i].rows < marks[j].rows

\* three rows with empty arrays, granularity 2: the two marks of the element
\* stream record the same position, those of the key stream do not
C15_Witness ==
    /\ IsFull /\ g = 2 /\ N = 3 /\ writer.columns_list = <<"k", "n.a">>
    /\ "n%2Ea" \in DOMAIN writer.column_streams
    /\ Len(writer.column_streams["n%2Ea"].marks) = 2
    /\ SamePosition(writer.column_streams["n%2Ea"].marks[1],
                    writer.column_streams["n%2Ea"].marks[2])
    /\ writer.column_streams["n%2Ea"].marks[2].rows = 2
    /\ PositionBefore(writer.column_streams["k"].marks[1],
                      writer.column_streams["k"].marks[2])

\* the key of a row under the writer's sort description
KeyTuple(row) ==
    [i \in DOMAIN writer.sort_description |-> ColumnValue(writer.sort_description[i], row)]

\* lexicographic order of two tuples of the same length
LexLeq(a, b) ==
    \/ a = b
    \/ \E i \in DOMAIN a : a[i] < b[i] /\ \A m \in 1..(i - 1) : a[m] = b[m]

\* every block was sorted ascending by the key and followed the previous one
HistorySorted ==
    \A i \in 1..(N - 1) : LexLeq(KeyTuple(history[i]), KeyTuple(history[i + 1]))

\* the s-th entry of the primary index
IndexTuple(s) == [j \in DOMAIN writer.index_columns |-> writer.index_columns[j][s]]

IndexLength == IF writer.index_columns = <<>> THEN 0 ELSE Len(writer.index_columns[1])

SortedIndexCase ==
    IsFull /\ writer.mode # "Unsorted" /\ HistorySorted /\ writer.index_columns # <<>>

\* C16 as stated: if all rows were written in ascending key order, the primary
\* index is non-decreasing in every key column.
C16_IndexSortedPerColumn ==
    SortedIndexCase =>
        \A j \in DOMAIN writer.index_columns : \A s \in 1..(IndexLength - 1) :
            writer.index_columns[j][s] <= writer.index_columns[j][s + 1]

\* C16: if all rows were written in ascending key order, the entries of the
\* primary index are non-decreasing as key tuples (lexicographically), and so
\* is its first key column; a later key column need not be.
C16_IndexSortedAsTuples ==
    SortedIndexCase =>
        \A s \in 1..(IndexLength - 1) :
            /\ LexLeq(IndexTuple(s), IndexTuple(s + 1))
            /\ writer.index_columns[1][s] <= writer.index_columns[1][s + 1]

\* key (k, j), granularity 2, rows (0, 3), (0, 3), (1, 2): the index is sorted
\* as tuples, its second column is not
C16_Witness ==
    /\ SortedIndexCase /\ g = 2 /\ N = 3
    /\ writer.sort_description = <<"k", "j">>
    /\ writer.index_columns = << <<0, 1>>, <<3, 2>> >>

\* the last call was writeSuffixAndGetChecksums() and it returned
FinalizedWithoutArguments ==
    IsFull /\ writer.returned # <<>> /\ last_input = "plain"

\* C17: in every state of the full writer, writeSuffixAndGetChecksums() has
\* the effects and the result of writeSuffixAndGetChecksums(columns_list,
\* nullptr) with the column list given at construction; after the call
\* columns.txt holds that list and the checksum set has no pre-supplied entry.
C17_NoArgumentFinalize ==
    (IsFull /\ ~writer.crashed) =>
        /\ writeSuffixAndGetChecksumsNoArgs(writer) =
              writeSuffixAndGetChecksums(writer, writer.columns_list, <<>>)
        /\ (FinalizedWithoutArguments /\ N > 0) =>
              /\ writer.columns_txt = <<writer.columns_list>>
              /\ writer.checksums_txt = <<ReturnedChecksums>>
              /\ DOMAIN ReturnedChecksums \cap DOMAIN GatheredChecksums = {}

\* a part of three rows finalized by the overload without arguments
C17_Witness ==
    /\ FinalizedWithoutArguments /\ finalize_calls = 1 /\ N = 3
    /\ writer.columns_list = <<"k", "n.a", "n.b">>
    /\ writer.columns_txt = << <<"k", "n.a", "n.b">> >>
    /\ PrimaryIdx \in DOMAIN ReturnedChecksums

\* the index accumulator read sample by sample, every sample with all its key
\* columns in the order of the sort description
IndexSampleMajor == Concat([s \in 1..IndexLength |-> IndexTuple(s)])

\* C18: the values serialized to primary.idx are, over all write calls, the
\* entries of the index accumulator sample after sample in row order, each
\* sample with the values of all key columns in sort-description order; the
\* finished file has this content.
C18_IndexFileIsSampleMajor ==
    (IsFull /\ writer.mode # "Unsorted") =>
        /\ writer.index_stream # <<>> => writer.index_stream[1] = IndexSampleMajor
        /\ (finalize_calls = 1 /\ writer.returned # <<>> /\ N > 0) =>
              /\ ReturnedChecksums[PrimaryIdx].file_hash = IndexSampleMajor
              /\ ReturnedChecksums[PrimaryIdx].file_size = Len(IndexSampleMajor)

\* key (k, j), granularity 2, three rows: two samples of two values each
C18_Witness ==
    /\ IsFull /\ writer.mode # "Unsorted" /\ g = 2 /\ N = 3
    /\ writer.sort_description = <<"k", "j">>
    /\ writer.index_columns = << <<0, 1>>, <<3, 2>> >>
    /\ writer.index_stream = << <<0, 3, 1, 2>> >>

\* C19: every mark records an offset in the block smaller than
\* min_compress_block_size (hence smaller than the size of a full block, as
\* min_compress_block_size <= max_compress_block_size), and between two calls
\* no stream's working buffer is full: no mark points at the end of a block.
C19_MarksNeverAtBlockEnd ==
    writer.min_compress_block_size <= writer.max_compress_block_size =>
        \A name \in DOMAIN writer.column_streams :
            LET stream == writer.column_streams[name]
            IN  /\ CompressedOffset(stream) < stream.capacity
                /\ \A i \in DOMAIN stream.marks :
                      /\ stream.marks[i].offset_in_decompressed_block
                            < writer.min_compress_block_size
                      /\ stream.marks[i].offset_in_decompressed_block < stream.capacity

\* granularity 2, three rows of the key column: the second mark found two
\* bytes in the buffer, which were flushed as a block before it was written
C19_Witness ==
    /\ IsFull /\ g = 2 /\ N = 3 /\ "k" \in DOMAIN writer.column_streams
    /\ writer.min_compress_block_size = 2
    /\ Len(writer.column_streams["k"].blocks) = 1
    /\ Len(writer.column_streams["k"].blocks[1]) = 2
    /\ Len(writer.column_streams["k"].marks) = 2
    /\ writer.column_streams["k"].marks[2].offset_in_decompressed_block = 0
    /\ writer.column_streams["k"].marks[2].offset_in_compressed_file = CompressedSize(writer.column_streams["k"].blocks[1])

\* where an event stands in a log
Positions(log, event) == {i \in DOMAIN log : log[i] = event}

\* the event stands in the log exactly once
Once(log, event) == Cardinality(Positions(log, event)) = 1

\* both events stand in the log once, the first before the second
InOrder(log, first, second) ==
    /\ Once(log, first) /\ Once(log, second)
    /\ \A i \in Positions(log, first) : \A j \in Positions(log, second) : i < j

SyncKinds == {"plain_file.sync", "marks_file.sync"}

\* C20: a writeSuffixAndGetChecksums of the column-only writer finalizes every
\* stream of the registry exactly once (compressed block, then data file, then
\* marks) before the stream's checksum entries are recorded; with sync
\* requested both files of the stream are synced after its finalize and before
\* its entries are recorded, without it nothing is synced; nothing else happens.
C20_FinalizeThenSyncThenChecksums ==
    [][(IsColumnOnly /\ finalize_calls' = finalize_calls + 1) =>
          LET log == writer'.io_log
              registry == DOMAIN writer.column_streams
          IN  /\ \A i \in DOMAIN log : log[i][1] \in registry
              /\ \A name \in registry :
                    /\ InOrder(log, <<name, "compressed.next">>, <<name, "plain_file.next">>)
                    /\ InOrder(log, <<name, "plain_file.next">>, <<name, "marks.next">>)
                    /\ InOrder(log, <<name, "marks.next">>, <<name, "addToChecksums">>)
                    /\ writer.sync =>
                          \A kind \in SyncKinds :
                              /\ InOrder(log, <<name, "marks.next">>, <<name, kind>>)
                              /\ InOrder(log, <<name, kind>>, <<name, "addToChecksums">>)
                    /\ writer'.returned # <<>>
                    /\ StreamFiles(name) \subseteq DOMAIN writer'.returned[1]
              /\ ~writer.sync => \A i \in DOMAIN log : log[i][2] \notin SyncKinds
              /\ Len(log) = Cardinality(registry) * (IF writer.sync THEN 6 ELSE 4)
    ]_vars

\* a syncing writer of the column n.a has finalized its two streams
C20_Witness ==
    /\ IsColumnOnly /\ writer.sync /\ ~writer.skip_offsets /\ finalize_calls = 1
    /\ writer.returned # <<>> /\ writer.column_streams = EmptyMap
    /\ Len(writer.io_log) = 12
    /\ writer.io_log[1] = <<"n%2Ea", "compressed.next">>
    /\ writer.io_log[4] = <<"n%2Ea", "plain_file.sync">>
    /\ writer.io_log[5] = <<"n%2Ea", "marks_file.sync">>
    /\ writer.io_log[6] = <<"n%2Ea", "addToChecksums">>
    /\ writer.io_log[7] = <<"n.size0", "compressed.next">>
    /\ writer.io_log[12] = <<"n.size0", "addToChecksums">>

====
